---- MODULE Spec2Model ----
(***************************************************************************)
(* Scene merge (autos/scene_merge.py) and chunk building                   *)
(* (autos/chunker.py) of auto-short-generator.                             *)
(*                                                                         *)
(* Times are integers: one unit is a fixed fraction of a second.  Every    *)
(* comparison the two algorithms make is between sums and differences of   *)
(* the given times, so integer-valued inputs behave as the same values do  *)
(* as Python floats.                                                       *)
(*                                                                         *)
(* A Python list of Scene objects is a sequence of records.  The merge     *)
(* stage appends the *same* objects it was given to its output list and    *)
(* assigns to their fields, so its output list `merged` is a sequence of   *)
(* references (positions) into the input list `scenes`, and an assignment  *)
(* through merged[-1] changes `scenes`.                                    *)
(***************************************************************************)
EXTENDS Integers, Sequences, FiniteSets

\* ---------------------------------------------------------------- bounds
MaxScenes == 3        \* longest input scene list
MaxT == 2             \* start_sec and end_sec range over 0..MaxT
MaxNeg == 1           \* parameters range down to -MaxNeg
MaxMinSceneSec == 2   \* min_scene_sec ranges up to this
MaxMergeChain == 2    \* max_merge_chain ranges up to this
MaxTargetSec == 3     \* target_sec ranges up to this
MaxToleranceSec == 2  \* tolerance_sec ranges up to this

VARIABLES
    pc,              \* position of the running call
    scenes,          \* scene_merge: the list of Scene objects passed in
    scenes0,         \* scene_merge: value of that list when the call began
    min_scene_sec,   \* scene_merge: parameter
    max_merge_chain, \* scene_merge: parameter
    merged,          \* scene_merge: output list, references into scenes
    via,             \* scene_merge: per merged entry, the append that made it
    absorbed,        \* scene_merge: per merged entry, scenes merged into it
    chain,           \* scene_merge: consecutive-merge counter
    pos,             \* scene_merge: 1-based position of the for loop
    chunk_scenes,    \* chunker: the list of Scene objects passed in
    chunk_scenes0,   \* chunker: value of that list when the call began
    source,          \* chunker: who built that list, a caller or _load_scenes
    target_sec,      \* chunker: parameter
    tolerance_sec,   \* chunker: parameter
    i,               \* chunker: 0-based index of the chunk's first scene
    chunk_index,     \* chunker: next chunk_index
    chunks,          \* chunker: output list of chunk dicts
    spans            \* chunker: per chunk, the (i, end_idx) it was cut at

vars == <<pc, scenes, scenes0, min_scene_sec, max_merge_chain, merged, via,
          absorbed, chain, pos, chunk_scenes, chunk_scenes0, source,
          target_sec, tolerance_sec, i, chunk_index, chunks, spans>>

mergeVars == <<scenes, scenes0, min_scene_sec, max_merge_chain, merged, via,
               absorbed, chain, pos>>
chunkVars == <<chunk_scenes, chunk_scenes0, source, target_sec, tolerance_sec,
               i, chunk_index, chunks, spans>>

\* ------------------------------------------------------- python builtins
Max(a, b) == IF a >= b THEN a ELSE b
Abs(x) == IF x < 0 THEN 0 - x ELSE x

\* Optional[...]: None is the empty tuple, a value v is <<v>>.
None == << >>
Some(v) == <<v>>

\* ----------------------------------------------------------------- inputs
Times == 0..MaxT

\* scene_index values carried by the records: the position (the loaders'
\* default) or values with gaps that do not start at 1.
IndexSchemes == {"position", "gapped"}
IndexOf(scheme, k) == IF scheme = "position" THEN k ELSE 2 * k + 3

Intervals == [start_sec : Times, end_sec : Times]
IntervalLists == UNION {[1..n -> Intervals] : n \in 0..MaxScenes}

MinSceneSecs == (0 - MaxNeg)..MaxMinSceneSec
MaxMergeChains == 0..MaxMergeChain
TargetSecs == (0 - MaxNeg)..MaxTargetSec
ToleranceSecs == (0 - MaxNeg)..MaxToleranceSec

\* ------------------------------------------------------------ scene_merge
\* scene_merge.Scene
MergeScene(idx, iv) ==
    [i |-> idx, start_sec |-> iv.start_sec, end_sec |-> iv.end_sec]

\* Variant of dur: start_sec is not subtracted.
durFromZero(sc) == Max(0, sc.end_sec)

\* scene_merge.Scene.dur
dur(sc) == Max(0, sc.end_sec - sc.start_sec)

\* The raw scenes of test_scene_merge_cli_writes_outputs, in tenths of a
\* second, with the test's --min-scene-sec 1.0 and the default
\* max_merge_chain.
MicroSceneRawScenes ==
    << MergeScene(1, [start_sec |-> 0, end_sec |-> 20]),
       MergeScene(2, [start_sec |-> 20, end_sec |-> 24]),
       MergeScene(3, [start_sec |-> 24, end_sec |-> 50]),
       MergeScene(4, [start_sec |-> 50, end_sec |-> 53]),
       MergeScene(5, [start_sec |-> 53, end_sec |-> 75]) >>
MicroSceneParams == <<10, 8>>

MergeParams == (MinSceneSecs \X MaxMergeChains) \cup {MicroSceneParams}

\* A row of a scenes file that carries scene_index and end_sec.
RawRow(idx, iv) ==
    [scene_index |-> idx, start_sec |-> iv.start_sec, end_sec |-> iv.end_sec]

\* _load_raw_scenes: one Scene per row, in file order, the values as read.
LoadRawScenes(rows) ==
    [k \in 1..Len(rows) |->
        [i |-> rows[k].scene_index, start_sec |-> rows[k].start_sec,
         end_sec |-> rows[k].end_sec]]

\* The list merge_micro_scenes returns, by value.
MergedScenes == [k \in 1..Len(merged) |-> scenes[merged[k]]]

\* Variant of CallMerge: no guard on an empty list.
CallMergeNoGuard(m, c) ==
    /\ pc = "merge_call"
    /\ min_scene_sec' = m
    /\ max_merge_chain' = c
    /\ merged' = << >>
    /\ via' = << >>
    /\ absorbed' = << >>
    /\ chain' = 0
    /\ pos' = 1
    /\ pc' = "merge_loop"
    /\ UNCHANGED <<scenes, scenes0, chunk_scenes, chunk_scenes0, source,
                   target_sec, tolerance_sec, i, chunk_index, chunks, spans>>

\* merge_micro_scenes is called: the guard on an empty list, then the locals.
CallMerge(m, c) ==
    /\ pc = "merge_call"
    /\ min_scene_sec' = m
    /\ max_merge_chain' = c
    /\ merged' = << >>
    /\ via' = << >>
    /\ absorbed' = << >>
    /\ chain' = 0
    /\ pos' = 1
    /\ pc' = IF scenes = << >> THEN "merge_done" ELSE "merge_loop"
    /\ UNCHANGED <<scenes, scenes0>>
    /\ UNCHANGED chunkVars

\* Variant of ChainFull: the break is forced one merge too late.
ChainFullStrict(ch, mx) == ch > mx

\* chain >= max_merge_chain, the test that forces a break.
ChainFull(ch, mx) == ch >= mx

\* Variant of ExtendEnd: the absorbed scene's end is assigned without max().
ExtendEndAssign(cur, new) == new

\* The end_sec the last kept scene gets when it absorbs a scene.
ExtendEnd(cur, new) == Max(cur, new)

\* Variant of MergeStep: a first scene below min_scene_sec is skipped, not
\* kept.
MergeStepDropShortFirst ==
    /\ pc = "merge_loop"
    /\ LET sc == scenes[pos]
           last == Len(merged)
       IN  IF merged = << >>
           THEN /\ merged' = IF dur(sc) < min_scene_sec
                              THEN merged ELSE Append(merged, pos)
                /\ via' = IF dur(sc) < min_scene_sec
                           THEN via ELSE Append(via, "first")
                /\ absorbed' = IF dur(sc) < min_scene_sec
                                THEN absorbed ELSE Append(absorbed, 0)
                /\ UNCHANGED <<scenes, chain>>
           ELSE IF dur(sc) < min_scene_sec
           THEN /\ scenes' = [scenes EXCEPT ![merged[last]].end_sec =
                                 ExtendEnd(scenes[merged[last]].end_sec,
                                           sc.end_sec)]
                /\ IF ChainFull(chain + 1, max_merge_chain)
                   THEN /\ merged' = Append(merged, pos)
                        /\ via' = Append(via, "forced")
                        /\ absorbed' =
                              Append([absorbed EXCEPT ![last] = @ + 1], 0)
                        /\ chain' = 0
                   ELSE /\ absorbed' = [absorbed EXCEPT ![last] = @ + 1]
                        /\ chain' = chain + 1
                        /\ UNCHANGED <<merged, via>>
           ELSE /\ merged' = Append(merged, pos)
                /\ via' = Append(via, "kept")
                /\ absorbed' = Append(absorbed, 0)
                /\ chain' = 0
                /\ UNCHANGED scenes
    /\ pos' = pos + 1
    /\ pc' = IF pos = Len(scenes) THEN "merge_reindex" ELSE "merge_loop"
    /\ UNCHANGED <<scenes0, min_scene_sec, max_merge_chain, chunk_scenes,
                   chunk_scenes0, source, target_sec, tolerance_sec, i,
                   chunk_index, chunks, spans>>

\* Variant of MergeStep: a short scene is absorbed into the first kept
\* scene, not the last.
MergeStepAbsorbIntoFirst ==
    /\ pc = "merge_loop"
    /\ LET sc == scenes[pos]
           last == Len(merged)
       IN  IF merged = << >>
           THEN /\ merged' = Append(merged, pos)
                /\ via' = Append(via, "first")
                /\ absorbed' = Append(absorbed, 0)
                /\ UNCHANGED <<scenes, chain>>
           ELSE IF dur(sc) < min_scene_sec
           THEN /\ scenes' = [scenes EXCEPT ![merged[1]].end_sec =
                                 ExtendEnd(scenes[merged[1]].end_sec,
                                           sc.end_sec)]
                /\ IF ChainFull(chain + 1, max_merge_chain)
                   THEN /\ merged' = Append(merged, pos)
                        /\ via' = Append(via, "forced")
                        /\ absorbed' =
                              Append([absorbed EXCEPT ![last] = @ + 1], 0)
                        /\ chain' = 0
                   ELSE /\ absorbed' = [absorbed EXCEPT ![last] = @ + 1]
                        /\ chain' = chain + 1
                        /\ UNCHANGED <<merged, via>>
           ELSE /\ merged' = Append(merged, pos)
                /\ via' = Append(via, "kept")
                /\ absorbed' = Append(absorbed, 0)
                /\ chain' = 0
                /\ UNCHANGED scenes
    /\ pos' = pos + 1
    /\ pc' = IF pos = Len(scenes) THEN "merge_reindex" ELSE "merge_loop"
    /\ UNCHANGED <<scenes0, min_scene_sec, max_merge_chain>>
    /\ UNCHANGED chunkVars

\* One iteration of `for sc in scenes`.
MergeStep ==
    /\ pc = "merge_loop"
    /\ LET sc == scenes[pos]
           last == Len(merged)
       IN  IF merged = << >>
           THEN /\ merged' = Append(merged, pos)
                /\ via' = Append(via, "first")
                /\ absorbed' = Append(absorbed, 0)
                /\ UNCHANGED <<scenes, chain>>
           ELSE IF dur(sc) < min_scene_sec
           THEN /\ scenes' = [scenes EXCEPT ![merged[last]].end_sec =
                                 ExtendEnd(scenes[merged[last]].end_sec,
                                           sc.end_sec)]
                /\ IF ChainFull(chain + 1, max_merge_chain)
                   THEN /\ merged' = Append(merged, pos)
                        /\ via' = Append(via, "forced")
                        /\ absorbed' =
                              Append([absorbed EXCEPT ![last] = @ + 1], 0)
                        /\ chain' = 0
                   ELSE /\ absorbed' = [absorbed EXCEPT ![last] = @ + 1]
                        /\ chain' = chain + 1
                        /\ UNCHANGED <<merged, via>>
           ELSE /\ merged' = Append(merged, pos)
                /\ via' = Append(via, "kept")
                /\ absorbed' = Append(absorbed, 0)
                /\ chain' = 0
                /\ UNCHANGED scenes
    /\ pos' = pos + 1
    /\ pc' = IF pos = Len(scenes) THEN "merge_reindex" ELSE "merge_loop"
    /\ UNCHANGED <<scenes0, min_scene_sec, max_merge_chain>>
    /\ UNCHANGED chunkVars

\* enumerate(merged, start=1): the index the k-th entry (1-based) receives.
ReindexStart == 1

\* Variant of NewIndex: enumerate without start=1.
NewIndexFromZero(k) == k - 1

NewIndex(k) == ReindexStart + (k - 1)

\* The re-index loop, then return merged.
MergeReindex ==
    /\ pc = "merge_reindex"
    /\ scenes' = [p \in 1..Len(scenes) |->
                    IF \E k \in 1..Len(merged) : merged[k] = p
                    THEN LET k == CHOOSE k \in 1..Len(merged) :
                                     /\ merged[k] = p
                                     /\ \A l \in 1..Len(merged) :
                                            merged[l] = p => l <= k
                         IN  [scenes[p] EXCEPT !.i = NewIndex(k)]
                    ELSE scenes[p]]
    /\ pc' = "merge_done"
    /\ UNCHANGED <<scenes0, min_scene_sec, max_merge_chain, merged, via,
                   absorbed, chain, pos>>
    /\ UNCHANGED chunkVars

\* ---------------------------------------------------------------- chunker
\* chunker.Scene
ChunkScene(idx, iv) ==
    [scene_index |-> idx, start_sec |-> iv.start_sec, end_sec |-> iv.end_sec]

\* chunker.Scene.duration_sec
duration_sec(sc) == Max(0, sc.end_sec - sc.start_sec)

\* The scenes of test_build_chunks_nearest_boundary and its parameters.
NearestBoundaryScenes ==
    << ChunkScene(1, [start_sec |-> 0, end_sec |-> 4]),
       ChunkScene(2, [start_sec |-> 4, end_sec |-> 9]),
       ChunkScene(3, [start_sec |-> 9, end_sec |-> 14]),
       ChunkScene(4, [start_sec |-> 14, end_sec |-> 19]) >>
NearestBoundaryParams == <<10, 2>>


\* A call of build_chunks whose first chunk has its over-shoot scene nearer
\* to target_sec than its under-shoot scene (durations 1 and 8), whose second
\* has the two at the same distance (durations 3 and 9), and whose third
\* meets target_sec exactly; with a tolerance of 1 and of 0.
UnderOverScenes ==
    << ChunkScene(1, [start_sec |-> 0, end_sec |-> 1]),
       ChunkScene(2, [start_sec |-> 1, end_sec |-> 8]),
       ChunkScene(3, [start_sec |-> 8, end_sec |-> 11]),
       ChunkScene(4, [start_sec |-> 11, end_sec |-> 17]) >>
UnderOverParams == {<<6, 1>>, <<6, 0>>}

ChunkParams ==
    (TargetSecs \X ToleranceSecs) \cup {NearestBoundaryParams}
        \cup UnderOverParams

\* Python's `best_dur or duration`: the right operand when the left is None
\* or is falsy, and 0.0 is falsy.
OrElse(x, y) == IF x = None \/ x[1] = 0 THEN y ELSE x[1]

\* The locals of one scan, before its first iteration.
ScanInit ==
    [last_under_idx |-> None, first_over_idx |-> None, best_idx |-> None,
     best_abs |-> None, best_dur |-> None]

\* The tie-break of the within-tolerance candidate.
BetterBest(st, abs_diff, duration) ==
    \/ st.best_abs = None
    \/ abs_diff < st.best_abs[1]
    \/ (abs_diff = st.best_abs[1] /\ duration < OrElse(st.best_dur, duration))

\* `for j in range(i, n)` from j on (0-based), with its break.
RECURSIVE ScanFrom(_, _, _, _, _, _)
ScanFrom(scs, chunk_start_sec, target, tol, j, st) ==
    IF j >= Len(scs) THEN st
    ELSE LET duration == scs[j + 1].end_sec - chunk_start_sec
             abs_diff == Abs(duration - target)
             st1 == IF duration <= target
                    THEN [st EXCEPT !.last_under_idx = Some(j)]
                    ELSE st
             st2 == IF abs_diff <= tol /\ BetterBest(st1, abs_diff, duration)
                    THEN [st1 EXCEPT !.best_idx = Some(j),
                                     !.best_abs = Some(abs_diff),
                                     !.best_dur = Some(duration)]
                    ELSE st1
         IN  IF duration > target + tol
             THEN [st2 EXCEPT !.first_over_idx = Some(j)]
             ELSE ScanFrom(scs, chunk_start_sec, target, tol, j + 1, st2)

Scan(scs, from, target, tol) ==
    ScanFrom(scs, scs[from + 1].start_sec, target, tol, from, ScanInit)

\* Variant of UnderWins: a tie goes to the over-shoot scene.
UnderWinsStrict(dur_under, dur_over, target) ==
    Abs(target - dur_under) < Abs(dur_over - target)

\* Variant of UnderWins: the under-shoot scene is taken whatever the
\* distances.
UnderWinsAlways(dur_under, dur_over, target) == TRUE

\* The under/over comparison when nothing is within tolerance.
UnderWins(dur_under, dur_over, target) ==
    Abs(target - dur_under) <= Abs(dur_over - target)

\* Variant of EndIdx: the over-shoot cases are left out.
EndIdxBestOrTail(scs, from, target, tol) ==
    LET st == Scan(scs, from, target, tol)
    IN  IF st.best_idx # None THEN st.best_idx[1] ELSE Len(scs) - 1

\* Variant of EndIdx: with nothing in band and nothing over, the chunk is
\* the single scene it starts at.
EndIdxTailSingle(scs, from, target, tol) ==
    LET st == Scan(scs, from, target, tol)
        chunk_start_sec == scs[from + 1].start_sec
    IN  IF st.best_idx # None THEN st.best_idx[1]
        ELSE IF st.first_over_idx = None THEN from
        ELSE IF st.last_under_idx = None THEN st.first_over_idx[1]
        ELSE LET dur_under ==
                     scs[st.last_under_idx[1] + 1].end_sec - chunk_start_sec
                 dur_over ==
                     scs[st.first_over_idx[1] + 1].end_sec - chunk_start_sec
             IN  IF UnderWins(dur_under, dur_over, target)
                 THEN st.last_under_idx[1]
                 ELSE st.first_over_idx[1]

\* Variant of EndIdx: a scene over the band is preferred to the
\* within-tolerance candidate.
EndIdxOverFirst(scs, from, target, tol) ==
    LET st == Scan(scs, from, target, tol)
    IN  IF st.first_over_idx # None THEN st.first_over_idx[1]
        ELSE IF st.best_idx # None THEN st.best_idx[1]
        ELSE Len(scs) - 1

\* The boundary selection after the scan: end_idx (0-based).
EndIdx(scs, from, target, tol) ==
    LET st == Scan(scs, from, target, tol)
        chunk_start_sec == scs[from + 1].start_sec
    IN  IF st.best_idx # None THEN st.best_idx[1]
        ELSE IF st.first_over_idx = None THEN Len(scs) - 1
        ELSE IF st.last_under_idx = None THEN st.first_over_idx[1]
        ELSE LET dur_under ==
                     scs[st.last_under_idx[1] + 1].end_sec - chunk_start_sec
                 dur_over ==
                     scs[st.first_over_idx[1] + 1].end_sec - chunk_start_sec
             IN  IF UnderWins(dur_under, dur_over, target)
                 THEN st.last_under_idx[1]
                 ELSE st.first_over_idx[1]

\* Variant of MakeChunk: duration_sec is the raw difference, without max().
MakeChunkRawDuration(scs, from, end_idx, idx) ==
    LET chunk_start_scene == scs[from + 1]
        chunk_end_scene == scs[end_idx + 1]
    IN  [chunk_index |-> idx,
         start_scene_index |-> chunk_start_scene.scene_index,
         end_scene_index |-> chunk_end_scene.scene_index,
         chunk_start_sec |-> chunk_start_scene.start_sec,
         chunk_end_sec |-> chunk_end_scene.end_sec,
         duration_sec |->
             chunk_end_scene.end_sec - chunk_start_scene.start_sec,
         scene_count |-> (end_idx - from) + 1]

\* Variant of MakeChunk: the scene index fields are list positions.
MakeChunkByPosition(scs, from, end_idx, idx) ==
    LET chunk_start_scene == scs[from + 1]
        chunk_end_scene == scs[end_idx + 1]
    IN  [chunk_index |-> idx,
         start_scene_index |-> from + 1,
         end_scene_index |-> end_idx + 1,
         chunk_start_sec |-> chunk_start_scene.start_sec,
         chunk_end_sec |-> chunk_end_scene.end_sec,
         duration_sec |->
             Max(0, chunk_end_scene.end_sec - chunk_start_scene.start_sec),
         scene_count |-> (end_idx - from) + 1]

\* The chunk dict built for scenes from..end_idx.
MakeChunk(scs, from, end_idx, idx) ==
    LET chunk_start_scene == scs[from + 1]
        chunk_end_scene == scs[end_idx + 1]
    IN  [chunk_index |-> idx,
         start_scene_index |-> chunk_start_scene.scene_index,
         end_scene_index |-> chunk_end_scene.scene_index,
         chunk_start_sec |-> chunk_start_scene.start_sec,
         chunk_end_sec |-> chunk_end_scene.end_sec,
         duration_sec |->
             Max(0, chunk_end_scene.end_sec - chunk_start_scene.start_sec),
         scene_count |-> (end_idx - from) + 1]

\* The locals of build_chunks after its guard on an empty list.
EnterBuildChunks(scs, t, tol) ==
    /\ chunk_scenes' = scs
    /\ chunk_scenes0' = scs
    /\ target_sec' = t
    /\ tolerance_sec' = tol
    /\ i' = 0
    /\ chunk_index' = 0
    /\ chunks' = << >>
    /\ spans' = << >>
    /\ pc' = IF scs = << >> THEN "chunk_done" ELSE "chunk_loop"

\* build_chunks is called on a list of scenes.
CallBuildChunks(p) ==
    /\ pc = "chunk_call"
    /\ EnterBuildChunks(chunk_scenes, p[1], p[2])
    /\ UNCHANGED source
    /\ UNCHANGED mergeVars

\* Variant of Advance: the scene after the chunk's last one is skipped.
AdvanceSkip(end_idx) == end_idx + 2

\* Variant of Advance: the next chunk starts at the scene this one ended at.
AdvanceStay(end_idx) == end_idx

\* i = end_idx + 1
Advance(end_idx) == end_idx + 1

\* One iteration of `while i < n`: scan, select, emit, advance.
ChunkStep ==
    /\ pc = "chunk_loop"
    /\ i < Len(chunk_scenes)
    /\ LET end_idx == EndIdx(chunk_scenes, i, target_sec, tolerance_sec)
       IN  /\ chunks' = Append(chunks,
                               MakeChunk(chunk_scenes, i, end_idx, chunk_index))
           /\ spans' = Append(spans, [first |-> i, last |-> end_idx])
           /\ chunk_index' = chunk_index + 1
           /\ i' = Advance(end_idx)
           /\ pc' = IF Advance(end_idx) < Len(chunk_scenes)
                    THEN "chunk_loop" ELSE "chunk_done"
    /\ UNCHANGED <<chunk_scenes, chunk_scenes0, source, target_sec,
                   tolerance_sec>>
    /\ UNCHANGED mergeVars

\* --------------------------------------------- merged scenes file, reloaded
\* _write_merged_json: one row per merged scene.
WriteMergedJson(scs) ==
    [k \in 1..Len(scs) |->
        [scene_index |-> scs[k].i, start_sec |-> scs[k].start_sec,
         end_sec |-> scs[k].end_sec, duration_sec |-> dur(scs[k])]]

\* The sort key of _load_scenes, (start_sec, end_sec), compared as tuples.
KeyLess(a, b) ==
    \/ a.start_sec < b.start_sec
    \/ (a.start_sec = b.start_sec /\ a.end_sec < b.end_sec)

\* list.sort is stable: x goes after every element that is not greater.
RECURSIVE InsertSorted(_, _)
InsertSorted(s, x) ==
    IF s = << >> THEN <<x>>
    ELSE IF KeyLess(x, s[Len(s)])
         THEN Append(InsertSorted(SubSeq(s, 1, Len(s) - 1), x), s[Len(s)])
         ELSE Append(s, x)

RECURSIVE SortScenes(_)
SortScenes(s) ==
    IF s = << >> THEN << >>
    ELSE InsertSorted(SortScenes(SubSeq(s, 1, Len(s) - 1)), s[Len(s)])

\* _load_scenes on rows that carry scene_index and end_sec: clamp, then sort.
LoadScenes(rows) ==
    SortScenes([k \in 1..Len(rows) |->
        [scene_index |-> rows[k].scene_index,
         start_sec |-> rows[k].start_sec,
         end_sec |-> IF rows[k].end_sec < rows[k].start_sec
                     THEN rows[k].start_sec ELSE rows[k].end_sec]])

\* run_chunking after run_scene_merge: the merged file is loaded and chunked.
\* The merge call has returned; its locals are gone.
RunChunking(p) ==
    /\ pc = "merge_done"
    /\ EnterBuildChunks(LoadScenes(WriteMergedJson(MergedScenes)), p[1], p[2])
    /\ source' = "merged_file"
    /\ scenes' = << >>
    /\ scenes0' = << >>
    /\ min_scene_sec' = 0
    /\ max_merge_chain' = 0
    /\ merged' = << >>
    /\ via' = << >>
    /\ absorbed' = << >>
    /\ chain' = 0
    /\ pos' = 0

\* ------------------------------------------------------------------- spec
InitMerge ==
    /\ pc = "merge_call"
    /\ \/ \E ivs \in IntervalLists, scheme \in IndexSchemes :
             scenes =
                 LoadRawScenes(
                     [k \in 1..Len(ivs) |-> RawRow(IndexOf(scheme, k), ivs[k])])
       \/ scenes = MicroSceneRawScenes
    /\ chunk_scenes = << >>

InitChunk ==
    /\ pc = "chunk_call"
    /\ scenes = << >>
    /\ \/ \E ivs \in IntervalLists, scheme \in IndexSchemes :
             chunk_scenes =
                 [k \in 1..Len(ivs) |-> ChunkScene(IndexOf(scheme, k), ivs[k])]
       \/ chunk_scenes = NearestBoundaryScenes
       \/ chunk_scenes = UnderOverScenes

Init ==
    /\ (InitMerge \/ InitChunk)
    /\ scenes0 = scenes
    /\ chunk_scenes0 = chunk_scenes
    /\ source = "caller"
    /\ min_scene_sec = 0
    /\ max_merge_chain = 0
    /\ merged = << >>
    /\ via = << >>
    /\ absorbed = << >>
    /\ chain = 0
    /\ pos = 0
    /\ target_sec = 0
    /\ tolerance_sec = 0
    /\ i = 0
    /\ chunk_index = 0
    /\ chunks = << >>
    /\ spans = << >>

Next ==
    \/ \E p \in MergeParams : CallMerge(p[1], p[2])
    \/ MergeStep
    \/ MergeReindex
    \/ \E p \in ChunkParams : CallBuildChunks(p)
    \/ \E p \in ChunkParams : RunChunking(p)
    \/ ChunkStep

Spec == Init /\ [][Next]_vars

\* A call that has started runs on: Python executes the loops of
\* merge_micro_scenes and build_chunks one iteration after the other.
LiveSpec ==
    /\ Spec
    /\ WF_vars(MergeStep)
    /\ WF_vars(MergeReindex)
    /\ WF_vars(ChunkStep)

\* ================================================================= claims
\* Helpers of the claims' formulas.
RECURSIVE CountBefore(_)
\* Sum of scene_count over chunks 1..k-1.
CountBefore(k) ==
    IF k <= 1 THEN 0 ELSE CountBefore(k - 1) + chunks[k - 1].scene_count

ChunkPhase == pc \in {"chunk_loop", "chunk_done"}
MergePhase == pc \in {"merge_loop", "merge_reindex", "merge_done"}

\* Sorted by (start_sec, end_sec), as _load_scenes leaves a list.
SortedByKey(scs) ==
    \A k \in 1..(Len(scs) - 1) : ~KeyLess(scs[k + 1], scs[k])

\* C1: the chunks build_chunks returns partition the scene list: the first
\* chunk starts at the first scene, each later chunk starts right after the
\* previous chunk's last scene, the last chunk ends at the last scene, every
\* scene_count is at least 1 and the scene_count values sum to the number of
\* scenes.
C1_Partition ==
    pc = "chunk_done" =>
        /\ (chunk_scenes0 # << >>) => chunks # << >>
        /\ \A k \in 1..Len(chunks) :
              /\ chunks[k].scene_count >= 1
              /\ spans[k].first = CountBefore(k)
              /\ spans[k].last = CountBefore(k + 1) - 1
              /\ CountBefore(k + 1) <= Len(chunk_scenes0)
              /\ chunks[k].start_scene_index =
                     chunk_scenes0[CountBefore(k) + 1].scene_index
              /\ chunks[k].end_scene_index =
                     chunk_scenes0[CountBefore(k + 1)].scene_index
        /\ CountBefore(Len(chunks) + 1) = Len(chunk_scenes0)

\* C1 witness: a three-scene list cut into a two-scene and a one-scene chunk.
C1_Witness ==
    /\ pc = "chunk_done"
    /\ Len(chunk_scenes0) = 3
    /\ Len(chunks) = 2
    /\ chunks[1].scene_count = 2

\* C2: for a scene list sorted by (start_sec, end_sec), the end of every chunk
\* is the end_sec of some input scene and lies strictly inside no input
\* scene's interval.
C2_BoundaryAligned ==
    (pc = "chunk_done" /\ SortedByKey(chunk_scenes0)) =>
        \A k \in 1..Len(chunks) :
            /\ \E n \in 1..Len(chunk_scenes0) :
                  chunk_scenes0[n].end_sec = chunks[k].chunk_end_sec
            /\ ~\E n \in 1..Len(chunk_scenes0) :
                  /\ chunk_scenes0[n].start_sec < chunks[k].chunk_end_sec
                  /\ chunks[k].chunk_end_sec < chunk_scenes0[n].end_sec

\* C2, on the lists run_chunking loads from the merged scenes file only.
C2_MergedFileAligned ==
    source = "merged_file" => C2_BoundaryAligned

\* C4 as stated: every scene merge_micro_scenes returns has duration_sec >=
\* min_scene_sec, except possibly a scene at a forced chain-break (the entry
\* the break appends, or the entry right before it); with no forced break
\* every output scene, the first included, meets the floor.
C4_DurationFloor ==
    pc = "merge_done" =>
        \A k \in 1..Len(merged) :
            \/ dur(MergedScenes[k]) >= min_scene_sec
            \/ via[k] = "forced"
            \/ (k < Len(merged) /\ via[k + 1] = "forced")

\* C4 amended: every scene merge_micro_scenes returns has duration_sec >=
\* min_scene_sec, except possibly the first output scene and the scenes
\* appended by a forced chain-break.
C4_KeptDurationFloor ==
    pc = "merge_done" =>
        \A k \in 1..Len(merged) :
            via[k] = "kept" => dur(MergedScenes[k]) >= min_scene_sec

\* C4 witness: the first scene is below the floor, nothing was forced, and a
\* later kept scene has absorbed a micro-scene.
C4_Witness ==
    /\ pc = "merge_done"
    /\ min_scene_sec >= 1
    /\ merged # << >>
    /\ dur(MergedScenes[1]) < min_scene_sec
    /\ \A k \in 1..Len(merged) : via[k] # "forced"
    /\ \E k \in 1..Len(merged) : via[k] = "kept" /\ absorbed[k] >= 1

\* C5: for max_merge_chain >= 1, no kept scene has absorbed more than
\* max_merge_chain scenes, and one that has absorbed max_merge_chain scenes is
\* followed by the entry of a forced break.
C5_ChainBound ==
    (MergePhase /\ max_merge_chain >= 1) =>
        \A k \in 1..Len(merged) :
            /\ absorbed[k] <= max_merge_chain
            /\ absorbed[k] = max_merge_chain =>
                  (k < Len(merged) /\ via[k + 1] = "forced")

\* C5 witness: with max_merge_chain = 2 a kept scene has absorbed two scenes.
C5_Witness ==
    /\ MergePhase
    /\ max_merge_chain = 2
    /\ \E k \in 1..Len(merged) : absorbed[k] = 2

\* C6: the scenes merge_micro_scenes returns carry the indices 1, 2, ..., m in
\* list order, whatever indices the input carried.
C6_Reindexed ==
    pc = "merge_done" =>
        \A k \in 1..Len(merged) : MergedScenes[k].i = k

\* C6 witness: three scenes with indices that do not start at 1 were merged
\* into two.
C6_Witness ==
    /\ pc = "merge_done"
    /\ Len(scenes0) = 3
    /\ scenes0[1].i # 1
    /\ Len(merged) = 2

\* Duration of scene j measured from the start of scene first (0-based).
DurFrom(first, j) ==
    chunk_scenes[j + 1].end_sec - chunk_scenes[first + 1].start_sec

\* The scenes one scan visits: from first up to and including the first one
\* whose duration exceeds target_sec + tolerance_sec.
Scanned(first) ==
    {j \in first..(Len(chunk_scenes) - 1) :
        \A l \in first..(j - 1) : DurFrom(first, l) <= target_sec + tolerance_sec}

InBand(first, j) == Abs(DurFrom(first, j) - target_sec) <= tolerance_sec

\* C7: when a scanned scene lies within the tolerance band, the chunk ends at
\* the scanned in-band scene that minimises |duration - target_sec|, ties
\* going to the smaller duration; the scenes (0,4),(4,9),(9,14),(14,19) with
\* target 10 and tolerance 2 give the chunks (0,9) and (9,19).
C7_WithinTolerance ==
    /\ ChunkPhase =>
          \A k \in 1..Len(chunks) :
              LET f == spans[k].first
                  e == spans[k].last
              IN  (\E j \in Scanned(f) : InBand(f, j)) =>
                      /\ e \in Scanned(f)
                      /\ InBand(f, e)
                      /\ \A j \in Scanned(f) :
                            InBand(f, j) =>
                                \/ Abs(DurFrom(f, e) - target_sec)
                                       < Abs(DurFrom(f, j) - target_sec)
                                \/ /\ Abs(DurFrom(f, e) - target_sec)
                                          = Abs(DurFrom(f, j) - target_sec)
                                   /\ DurFrom(f, e) <= DurFrom(f, j)
    /\ ( /\ pc = "chunk_done"
         /\ chunk_scenes0 = NearestBoundaryScenes
         /\ <<target_sec, tolerance_sec>> = NearestBoundaryParams ) =>
            /\ Len(chunks) = 2
            /\ chunks[1].chunk_start_sec = 0 /\ chunks[1].chunk_end_sec = 9
            /\ chunks[2].chunk_start_sec = 9 /\ chunks[2].chunk_end_sec = 19

\* C7 for target_sec > 0 only.
C7_PositiveTarget == target_sec > 0 => C7_WithinTolerance

\* C8: a chunk whose first scene is already longer than target_sec +
\* tolerance_sec contains exactly that scene; a list of one such scene gives
\* exactly one chunk with scene_count 1.
C8_OvershootAlone ==
    /\ ChunkPhase =>
          \A k \in 1..Len(chunks) :
              LET f == spans[k].first
              IN  DurFrom(f, f) > target_sec + tolerance_sec =>
                      /\ spans[k].last = f
                      /\ chunks[k].scene_count = 1
                      /\ chunks[k].chunk_end_sec = chunk_scenes[f + 1].end_sec
    /\ ( /\ pc = "chunk_done"
         /\ Len(chunk_scenes0) = 1
         /\ DurFrom(0, 0) > target_sec + tolerance_sec ) =>
            (Len(chunks) = 1 /\ chunks[1].scene_count = 1)

\* C8 witness: a chunk was cut after its over-long first scene although more
\* scenes follow it.
C8_Witness ==
    /\ ChunkPhase
    /\ target_sec > 0
    /\ tolerance_sec >= 0
    /\ \E k \in 1..Len(chunks) :
          /\ DurFrom(spans[k].first, spans[k].first)
                 > target_sec + tolerance_sec
          /\ spans[k].first + 1 < Len(chunk_scenes)

\* C9: on an empty scene list merge_micro_scenes returns an empty list and
\* build_chunks returns an empty list, for every parameter value, without
\* entering their loops.
C9_EmptyInput ==
    /\ (MergePhase /\ scenes0 = << >>) =>
          (pc = "merge_done" /\ MergedScenes = << >>)
    /\ (ChunkPhase /\ chunk_scenes0 = << >>) =>
          (pc = "chunk_done" /\ chunks = << >>)

\* C9 witness: the merge of an empty list returned, and the empty merged list
\* was chunked into an empty chunk list.
C9_Witness ==
    /\ pc = "chunk_done"
    /\ source = "merged_file"
    /\ chunk_scenes0 = << >>
    /\ chunks = << >>

\* C10: neither stage modifies its input: when merge_micro_scenes or
\* build_chunks returns, every scene of the input list has the index,
\* start_sec and end_sec it had before the call.
C10_InputUnmodified ==
    /\ pc = "merge_done" => scenes = scenes0
    /\ pc = "chunk_done" => chunk_scenes = chunk_scenes0

\* C11: build_chunks called with target_sec <= 0 fails at once: it neither
\* enters its loop nor returns a chunk list.
C11_RejectsNonPositiveTarget ==
    ~(ChunkPhase /\ target_sec <= 0)

\* C12: merge_micro_scenes called with max_merge_chain < 1 or with a negative
\* min_scene_sec fails at once: it neither enters its loop nor returns a
\* merged list.
C12_RejectsBadMergeArguments ==
    ~(MergePhase /\ (max_merge_chain < 1 \/ min_scene_sec < 0))

\* C13: merge_micro_scenes returns at least one scene for a non-empty input
\* and never more scenes than it was given; the raw durations 2.0, 0.4, 2.6,
\* 0.3, 2.2 with min_scene_sec 1.0 give exactly 3 scenes.
C13_OutputLength ==
    pc = "merge_done" =>
        /\ scenes0 # << >> => 1 <= Len(MergedScenes)
        /\ Len(MergedScenes) <= Len(scenes0)
        /\ ( /\ scenes0 = MicroSceneRawScenes
             /\ <<min_scene_sec, max_merge_chain>> = MicroSceneParams ) =>
                Len(MergedScenes) = 3

\* C13 witness: the five raw scenes of the test were merged into three.
C13_Witness ==
    /\ pc = "merge_done"
    /\ scenes0 = MicroSceneRawScenes
    /\ <<min_scene_sec, max_merge_chain>> = MicroSceneParams
    /\ Len(MergedScenes) = 3

RECURSIVE SumSeq(_)
\* Sum of a sequence of numbers.
SumSeq(q) == IF q = << >> THEN 0 ELSE q[1] + SumSeq(Tail(q))

\* C14: at a forced break the short scene that starts the new kept entry is
\* not absorbed into the preceding kept scene, and the counter is reset to 0:
\* every scene processed so far is either absorbed into a kept scene or kept
\* as its own entry, never both.
C14_ForcedBreakNotAbsorbed ==
    MergePhase =>
        /\ Len(merged) + SumSeq(absorbed) = pos - 1
        /\ (merged # << >> /\ absorbed[Len(merged)] = 0) => chain = 0

\* C15: a scene after the first whose duration is strictly below
\* min_scene_sec is absorbed by setting the last kept scene's end_sec to the
\* max of its end_sec and the absorbed scene's end_sec; a scene whose duration
\* is >= min_scene_sec is appended as a new kept entry, the counter is reset
\* to 0 and no scene changes; no step lowers any scene's end_sec.
C15_AbsorbKeepRule ==
    [][ (pc = "merge_loop" /\ merged # << >>) =>
            LET sc == scenes[pos]
                last == merged[Len(merged)]
            IN  /\ IF dur(sc) < min_scene_sec
                   THEN scenes'[last].end_sec =
                            Max(scenes[last].end_sec, sc.end_sec)
                   ELSE /\ merged' = Append(merged, pos)
                        /\ chain' = 0
                        /\ scenes' = scenes
                /\ \A p \in 1..Len(scenes) :
                      scenes'[p].end_sec >= scenes[p].end_sec ]_vars

\* C15 witness: a scene of duration exactly min_scene_sec was kept as a new
\* entry, and a kept scene absorbed a scene that ends before it does.
C15_Witness ==
    /\ pc = "merge_done"
    /\ min_scene_sec >= 1
    /\ \E k \in 1..Len(merged) :
          via[k] = "kept" /\ dur(scenes0[merged[k]]) = min_scene_sec
    /\ \E k \in 1..Len(merged) :
          /\ absorbed[k] >= 1
          /\ k = Len(merged)
          /\ scenes0[Len(scenes0)].end_sec < scenes[merged[k]].end_sec

\* C16: the first input scene is always kept, whatever its duration: once it
\* has been processed it is the first output scene, with its start_sec, and
\* processing it leaves the counter at 0 and every scene as it was.
C16_FirstKept ==
    (MergePhase /\ scenes0 # << >> /\ pos >= 2) =>
        /\ merged # << >>
        /\ merged[1] = 1
        /\ via[1] = "first"
        /\ MergedScenes[1].start_sec = scenes0[1].start_sec
        /\ (pos = 2 /\ pc # "merge_done") =>
              (chain = 0 /\ Len(merged) = 1 /\ scenes = scenes0)

\* C16 witness: a first scene below min_scene_sec heads the returned list,
\* followed by another kept scene.
C16_Witness ==
    /\ pc = "merge_done"
    /\ min_scene_sec >= 1
    /\ scenes0 # << >>
    /\ dur(scenes0[1]) < min_scene_sec
    /\ Len(merged) >= 2
    /\ merged[1] = 1

\* Every input scene is shorter than min_scene_sec.
AllShort == \A k \in 1..Len(scenes0) : dur(scenes0[k]) < min_scene_sec

\* C17: when every one of the n input scenes is shorter than min_scene_sec
\* and max_merge_chain >= 1, merge_micro_scenes returns a single scene
\* exactly when n - 1 < max_merge_chain, and more than one scene otherwise.
C17_AllShortChainBreak ==
    (pc = "merge_done" /\ max_merge_chain >= 1 /\ scenes0 # << >> /\ AllShort) =>
        /\ (Len(scenes0) - 1 < max_merge_chain) => Len(MergedScenes) = 1
        /\ (Len(scenes0) - 1 >= max_merge_chain) => Len(MergedScenes) > 1

\* C17 witness: three short scenes with max_merge_chain = 2 came back as two
\* scenes.
C17_Witness ==
    /\ pc = "merge_done"
    /\ max_merge_chain = 2
    /\ Len(scenes0) = 3
    /\ AllShort
    /\ Len(MergedScenes) = 2

\* The scanned scenes at or under target_sec, and those over the band.
UnderSet(first) == {j \in Scanned(first) : DurFrom(first, j) <= target_sec}
OverSet(first) ==
    {j \in Scanned(first) : DurFrom(first, j) > target_sec + tolerance_sec}
NoneInBand(first) == \A j \in Scanned(first) : ~InBand(first, j)
LastOf(S) == CHOOSE x \in S : \A y \in S : y <= x
\* The nearer of last_under and first_over, last_under on a tie.
NearerOfUnderOver(first) ==
    LET lu == LastOf(UnderSet(first))
        fo == LastOf(OverSet(first))
    IN  IF Abs(target_sec - DurFrom(first, lu))
               <= Abs(DurFrom(first, fo) - target_sec)
        THEN lu ELSE fo

\* C18: when a scan finds no scene within the tolerance band, finds a scene
\* with duration <= target_sec and finds a scene over target_sec +
\* tolerance_sec, the chunk ends at whichever of last_under and first_over is
\* closer to target_sec measured from the chunk start, and at last_under when
\* the two distances are equal.
C18_UnderOverFallback ==
    ChunkPhase =>
        \A k \in 1..Len(spans) :
            LET f == spans[k].first
            IN  (NoneInBand(f) /\ UnderSet(f) # {} /\ OverSet(f) # {}) =>
                    spans[k].last = NearerOfUnderOver(f)

\* The fallback applies to the chunk starting at `first` with two different
\* candidates: nothing is within the band, last_under and first_over exist.
FallbackAt(first) ==
    /\ NoneInBand(first)
    /\ UnderSet(first) # {}
    /\ OverSet(first) # {}
    /\ LastOf(UnderSet(first)) # LastOf(OverSet(first))
UnderDist(first) == Abs(target_sec - DurFrom(first, LastOf(UnderSet(first))))
OverDist(first) == Abs(DurFrom(first, LastOf(OverSet(first))) - target_sec)

\* C18 witness: one call cut a chunk by the fallback at first_over, which was
\* strictly nearer to target_sec than last_under, and another chunk at
\* last_under, the two candidates being at the same distance.
C18_Witness ==
    /\ ChunkPhase
    /\ \E k \in 1..Len(spans) :
           LET f == spans[k].first
           IN  /\ FallbackAt(f)
               /\ OverDist(f) < UnderDist(f)
               /\ spans[k].last = LastOf(OverSet(f))
    /\ \E k \in 1..Len(spans) :
           LET f == spans[k].first
           IN  /\ FallbackAt(f)
               /\ OverDist(f) = UnderDist(f)
               /\ spans[k].last = LastOf(UnderSet(f))

\* C18, second case reached: a chunk was cut by the fallback at last_under,
\* which was strictly nearer to target_sec than first_over.
C18_UnderNearerReached ==
    /\ ChunkPhase
    /\ \E k \in 1..Len(spans) :
           LET f == spans[k].first
           IN  /\ FallbackAt(f)
               /\ UnderDist(f) < OverDist(f)
               /\ spans[k].last = LastOf(UnderSet(f))

\* C19: when from a chunk's first scene on no remaining scene is within the
\* tolerance band and none exceeds target_sec + tolerance_sec, the chunk
\* takes every remaining scene and ends at the last scene of the list.
C19_TailRule ==
    ChunkPhase =>
        \A k \in 1..Len(spans) :
            LET f == spans[k].first
                rest == f..(Len(chunk_scenes) - 1)
            IN  (\A j \in rest :
                     /\ ~InBand(f, j)
                     /\ DurFrom(f, j) <= target_sec + tolerance_sec) =>
                    /\ spans[k].last = Len(chunk_scenes) - 1
                    /\ k = Len(spans)
                    /\ chunks[k].scene_count = Len(chunk_scenes) - f

\* C19 witness: a final chunk of two scenes was cut by the tail rule, and it
\* is shorter than target_sec - tolerance_sec.
C19_Witness ==
    /\ pc = "chunk_done"
    /\ spans # << >>
    /\ LET k == Len(spans)
           f == spans[k].first
       IN  /\ \A j \in f..(Len(chunk_scenes) - 1) :
                  ~InBand(f, j) /\ DurFrom(f, j) <= target_sec + tolerance_sec
           /\ spans[k].last = f + 1
           /\ tolerance_sec >= 0
           /\ chunks[k].duration_sec < target_sec - tolerance_sec

\* The scenes' end_sec never decreases along the list.
EndSecNonDecreasing ==
    \A j \in 1..(Len(chunk_scenes) - 1) :
        chunk_scenes[j].end_sec <= chunk_scenes[j + 1].end_sec

\* C20: with tolerance_sec = 0 and target_sec > 0 on scenes with
\* non-decreasing end_sec, a chunk ends at a scene whose duration from the
\* chunk start equals target_sec when some remaining scene has that duration;
\* otherwise at the nearer of last_under and first_over (last_under on a
\* tie, first_over when no scene is at or under target_sec), or at the last
\* scene of the list when no scene is over target_sec.
C20_ZeroTolerance ==
    (ChunkPhase /\ tolerance_sec = 0 /\ target_sec > 0
        /\ EndSecNonDecreasing) =>
        \A k \in 1..Len(spans) :
            LET f == spans[k].first
                e == spans[k].last
                rest == f..(Len(chunk_scenes) - 1)
            IN  IF \E j \in rest : DurFrom(f, j) = target_sec
                THEN DurFrom(f, e) = target_sec
                ELSE IF \A j \in rest : DurFrom(f, j) <= target_sec
                THEN e = Len(chunk_scenes) - 1
                ELSE IF UnderSet(f) = {}
                THEN e = LastOf(OverSet(f))
                ELSE e = NearerOfUnderOver(f)

\* C20 witness: with tolerance_sec = 0 one call cut a chunk at first_over,
\* no scene having duration target_sec and first_over being strictly nearer
\* to target_sec than last_under, a chunk at last_under on equal distances,
\* and a chunk at a scene whose duration is exactly target_sec.
C20_Witness ==
    /\ ChunkPhase
    /\ tolerance_sec = 0
    /\ target_sec > 0
    /\ EndSecNonDecreasing
    /\ \E k \in 1..Len(spans) :
           LET f == spans[k].first
           IN  /\ FallbackAt(f)
               /\ OverDist(f) < UnderDist(f)
               /\ spans[k].last = LastOf(OverSet(f))
    /\ \E k \in 1..Len(spans) :
           LET f == spans[k].first
           IN  /\ FallbackAt(f)
               /\ OverDist(f) = UnderDist(f)
               /\ spans[k].last = LastOf(UnderSet(f))
    /\ \E k \in 1..Len(spans) :
           DurFrom(spans[k].first, spans[k].last) = target_sec

\* C20, other cases reached with tolerance_sec = 0: a chunk cut at
\* last_under, strictly nearer than first_over; a two-scene chunk ending at
\* an exact match after a scene under target_sec.
C20_UnderNearerReached ==
    /\ ChunkPhase
    /\ tolerance_sec = 0
    /\ target_sec > 0
    /\ EndSecNonDecreasing
    /\ \E k \in 1..Len(spans) :
           LET f == spans[k].first
           IN  /\ FallbackAt(f)
               /\ UnderDist(f) < OverDist(f)
               /\ spans[k].last = LastOf(UnderSet(f))
C20_ExactAfterUnderReached ==
    /\ ChunkPhase
    /\ tolerance_sec = 0
    /\ target_sec > 0
    /\ EndSecNonDecreasing
    /\ \E k \in 1..Len(spans) :
           /\ spans[k].last = spans[k].first + 1
           /\ DurFrom(spans[k].first, spans[k].first) < target_sec
           /\ DurFrom(spans[k].first, spans[k].last) = target_sec

\* C21: build_chunks terminates for every target_sec and tolerance_sec,
\* target_sec <= 0 and negative tolerance_sec included: every iteration of
\* its outer loop picks end_idx >= i and sets i to end_idx + 1, it emits at
\* most len(scenes) chunks, and a started call reaches its return;
\* merge_micro_scenes visits each scene once and reaches its return.
C21_Terminates ==
    /\ [](ChunkPhase =>
             /\ Len(chunks) <= Len(chunk_scenes)
             /\ i <= Len(chunk_scenes))
    /\ [](MergePhase => pos <= Len(scenes) + 1)
    /\ [][pc = "chunk_loop" =>
             /\ spans'[Len(spans')].last >= i
             /\ i' = spans'[Len(spans')].last + 1
             /\ i' > i]_vars
    /\ [][pc = "merge_loop" => pos' = pos + 1]_vars
    /\ (pc = "chunk_loop") ~> (pc = "chunk_done")
    /\ (pc = "merge_loop") ~> (pc = "merge_done")

\* C21 witness: a call with target_sec <= 0 and a negative tolerance_sec on
\* three scenes has returned.
C21_Witness ==
    /\ pc = "chunk_done"
    /\ target_sec <= 0
    /\ tolerance_sec < 0
    /\ Len(chunk_scenes) = 3
    /\ chunks # << >>

\* C22: every chunk's chunk_start_sec is the start_sec of its first scene,
\* its chunk_end_sec is the end_sec of its last scene, and its duration_sec
\* is max(0, chunk_end_sec - chunk_start_sec), hence never negative.
C22_ChunkTimes ==
    ChunkPhase =>
        \A k \in 1..Len(chunks) :
            /\ chunks[k].chunk_start_sec
                   = chunk_scenes[spans[k].first + 1].start_sec
            /\ chunks[k].chunk_end_sec
                   = chunk_scenes[spans[k].last + 1].end_sec
            /\ chunks[k].duration_sec
                   = Max(0, chunks[k].chunk_end_sec - chunks[k].chunk_start_sec)
            /\ chunks[k].duration_sec >= 0

\* C22 witness: a chunk of two scenes ends before it starts and has
\* duration_sec 0.
C22_Witness ==
    /\ ChunkPhase
    /\ \E k \in 1..Len(chunks) :
           /\ spans[k].last > spans[k].first
           /\ chunks[k].chunk_end_sec < chunks[k].chunk_start_sec
           /\ chunks[k].duration_sec = 0

\* C23: the k-th chunk emitted, counting from 0, has chunk_index = k, and
\* its start_scene_index and end_scene_index are the scene_index values its
\* first and last scene carry, not their positions in the list.
C23_ChunkIndexFields ==
    ChunkPhase =>
        /\ chunk_index = Len(chunks)
        /\ \A k \in 1..Len(chunks) :
               /\ chunks[k].chunk_index = k - 1
               /\ chunks[k].start_scene_index
                      = chunk_scenes[spans[k].first + 1].scene_index
               /\ chunks[k].end_scene_index
                      = chunk_scenes[spans[k].last + 1].scene_index

\* C23 witness: two chunks were emitted from scenes whose scene_index values
\* differ from their positions, the second chunk spanning two scenes.
C23_Witness ==
    /\ pc = "chunk_done"
    /\ Len(chunks) = 2
    /\ spans[2].last > spans[2].first
    /\ chunks[2].chunk_index = 1
    /\ chunks[2].start_scene_index # spans[2].first + 1
    /\ chunks[2].end_scene_index # spans[2].last + 1

WellFormed(sc) == sc.end_sec >= sc.start_sec

\* C24: every scene the merge stage processes, every row it writes out and
\* every scene the chunk stage processes after loading the merged file has
\* end_sec >= start_sec, a record with end_sec < start_sec having been
\* clamped to end_sec = start_sec.
C24_MalformedClamped ==
    /\ MergePhase => \A p \in 1..Len(scenes) : WellFormed(scenes[p])
    /\ pc = "merge_done" =>
           \A k \in 1..Len(merged) :
               WellFormed(WriteMergedJson(MergedScenes)[k])
    /\ (ChunkPhase /\ source = "merged_file") =>
           \A k \in 1..Len(chunk_scenes) : WellFormed(chunk_scenes[k])

\* merge_micro_scenes as a function of its arguments, by value: the loop
\* from position k on, with the kept list `out` and the counter `ch`.
RECURSIVE MergeFold(_, _, _, _, _, _)
MergeFold(scs, k, out, ch, m, c) ==
    IF k > Len(scs) THEN out
    ELSE LET sc == scs[k]
         IN  IF out = << >>
             THEN MergeFold(scs, k + 1, <<sc>>, ch, m, c)
             ELSE IF dur(sc) < m
             THEN LET ext == [out EXCEPT ![Len(out)].end_sec =
                                 ExtendEnd(out[Len(out)].end_sec, sc.end_sec)]
                  IN  IF ChainFull(ch + 1, c)
                      THEN MergeFold(scs, k + 1, Append(ext, sc), 0, m, c)
                      ELSE MergeFold(scs, k + 1, ext, ch + 1, m, c)
             ELSE MergeFold(scs, k + 1, Append(out, sc), 0, m, c)

MergeMicroScenes(scs, m, c) ==
    LET out == MergeFold(scs, 1, << >>, 0, m, c)
    IN  [k \in 1..Len(out) |-> [out[k] EXCEPT !.i = NewIndex(k)]]

\* The function agrees with the call the actions carry out.
MergeMicroScenesAgrees ==
    pc = "merge_done" =>
        MergedScenes = MergeMicroScenes(scenes0, min_scene_sec, max_merge_chain)

\* build_chunks as a function of its arguments: the chunks from scene `from`
\* on, numbered from idx.
RECURSIVE BuildChunksFrom(_, _, _, _, _)
BuildChunksFrom(scs, from, idx, t, tol) ==
    IF from >= Len(scs) THEN << >>
    ELSE LET end_idx == EndIdx(scs, from, t, tol)
         IN  <<MakeChunk(scs, from, end_idx, idx)>>
                 \o BuildChunksFrom(scs, Advance(end_idx), idx + 1, t, tol)

BuildChunksAgrees ==
    pc = "chunk_done" =>
        chunks = BuildChunksFrom(chunk_scenes0, 0, 0, target_sec, tolerance_sec)

\* The orders a file's records can be given in.
Perms(n) == {f \in [1..n -> 1..n] : \A a, b \in 1..n : f[a] = f[b] => a = b}
Permute(s, f) == [k \in 1..Len(s) |-> s[f[k]]]

\* The rows _load_raw_scenes read the list scs from.
RowsOf(scs) ==
    [k \in 1..Len(scs) |->
        [scene_index |-> scs[k].i, start_sec |-> scs[k].start_sec,
         end_sec |-> scs[k].end_sec]]

\* run_scene_merge: the rows it writes for the rows it reads.
RunSceneMergeRows(rows, m, c) ==
    WriteMergedJson(MergeMicroScenes(LoadRawScenes(rows), m, c))

\* C25: the scenes the merge pass and the chunk pass work on are sorted by
\* (start_sec, end_sec), and the rows run_scene_merge writes and the chunks
\* run_chunking builds are the same for every order of the records in the
\* scenes file.
C25_OrderIndependent ==
    /\ MergePhase => SortedByKey(scenes0)
    /\ pc = "merge_done" =>
           \A f \in Perms(Len(scenes0)) :
               RunSceneMergeRows(Permute(RowsOf(scenes0), f),
                                 min_scene_sec, max_merge_chain)
                   = WriteMergedJson(MergedScenes)
    /\ (ChunkPhase /\ source = "merged_file") => SortedByKey(chunk_scenes)
    /\ (pc = "chunk_done" /\ source = "merged_file") =>
           \A f \in Perms(Len(chunk_scenes0)) :
               BuildChunksFrom(LoadScenes(Permute(chunk_scenes0, f)), 0, 0,
                               target_sec, tolerance_sec) = chunks

\* Each scene starts where the previous one ends, and none ends before it
\* starts.
Contiguous(scs) ==
    /\ \A k \in 1..Len(scs) : scs[k].end_sec >= scs[k].start_sec
    /\ \A k \in 1..(Len(scs) - 1) : scs[k].end_sec = scs[k + 1].start_sec

\* C26: for a contiguous, non-overlapping input and max_merge_chain >= 1 the
\* output of merge_micro_scenes is contiguous and non-overlapping too, starts
\* at the first input start_sec and ends at the last input end_sec.
C26_TilingPreserved ==
    (pc = "merge_done" /\ max_merge_chain >= 1 /\ scenes0 # << >>
        /\ Contiguous(scenes0)) =>
        /\ Contiguous(MergedScenes)
        /\ MergedScenes[1].start_sec = scenes0[1].start_sec
        /\ MergedScenes[Len(merged)].end_sec = scenes0[Len(scenes0)].end_sec

\* C27: a step of the merge loop changes no scene but the most recently kept
\* one, and of that only end_sec; no step of the call changes a start_sec;
\* the kept scenes are input scenes in input order, so the output start_sec
\* values are a subsequence of the input start_sec values.
C27_OnlyLastKeptChanges ==
    /\ [][pc = "merge_loop" =>
             \A p \in 1..Len(scenes) :
                 scenes'[p] # scenes[p] =>
                     /\ merged # << >>
                     /\ p = merged[Len(merged)]
                     /\ scenes'[p] =
                            [scenes[p] EXCEPT !.end_sec = scenes'[p].end_sec]]_vars
    /\ [][(MergePhase /\ pc' # "chunk_loop" /\ pc' # "chunk_done") =>
             \A p \in 1..Len(scenes) :
                 scenes'[p].start_sec = scenes[p].start_sec]_vars
    /\ [](MergePhase =>
             /\ \A k \in 1..(Len(merged) - 1) : merged[k] < merged[k + 1]
             /\ \A k \in 1..Len(merged) :
                    MergedScenes[k].start_sec = scenes0[merged[k]].start_sec)

\* C27 witness: two kept scenes have each absorbed a scene, the earlier one
\* ending later than it did in the input.
C27_Witness ==
    /\ MergePhase
    /\ Len(merged) >= 2
    /\ absorbed[1] >= 1
    /\ absorbed[2] >= 1
    /\ scenes[merged[1]].end_sec > scenes0[merged[1]].end_sec
    /\ scenes[merged[2]].end_sec > scenes0[merged[2]].end_sec

\* Every run of consecutive scenes below min_scene_sec after the first scene
\* is shorter than max_merge_chain.
ShortRunsBelowChain ==
    \A a, b \in 2..Len(scenes0) :
        (a <= b /\ \A p \in a..b : dur(scenes0[p]) < min_scene_sec) =>
            b - a + 1 < max_merge_chain

\* C28: for max_merge_chain >= 1 and an input whose runs of consecutive
\* short scenes after the first scene are all shorter than max_merge_chain,
\* no break is forced, and merge_micro_scenes applied with the same
\* parameters to its own output returns the same list: same length, indices,
\* start_sec and end_sec.
C28_Idempotent ==
    (pc = "merge_done" /\ max_merge_chain >= 1 /\ ShortRunsBelowChain) =>
        /\ \A k \in 1..Len(via) : via[k] # "forced"
        /\ MergeMicroScenes(MergedScenes, min_scene_sec, max_merge_chain)
               = MergedScenes

\* C28 witness: a call that absorbed a scene returned two scenes, the second
\* one extended by the scene it absorbed.
C28_Witness ==
    /\ pc = "merge_done"
    /\ max_merge_chain >= 1
    /\ ShortRunsBelowChain
    /\ Len(scenes0) = 3
    /\ Len(merged) = 2
    /\ absorbed[2] = 1
    /\ MergedScenes[2].end_sec > scenes0[2].end_sec

\* C29: for scenes with non-decreasing end_sec, target_sec > 0 and
\* tolerance_sec >= 0, when some scene at or after a chunk's first scene ends
\* at a distance from the chunk start that lies within
\* [target_sec - tolerance_sec, target_sec + tolerance_sec], the chunk's
\* duration lies within that band.
C29_BandGuarantee ==
    (ChunkPhase /\ target_sec > 0 /\ tolerance_sec >= 0
        /\ EndSecNonDecreasing) =>
        \A k \in 1..Len(chunks) :
            LET f == spans[k].first
            IN  (\E j \in f..(Len(chunk_scenes) - 1) : InBand(f, j)) =>
                    /\ InBand(f, spans[k].last)
                    /\ Abs(chunks[k].duration_sec - target_sec)
                           <= tolerance_sec

\* C29 witness: a chunk ends within the band at its second scene, with a
\* scene under the band before it and a scene over the band after it.
C29_Witness ==
    /\ ChunkPhase
    /\ target_sec > 0
    /\ tolerance_sec >= 0
    /\ EndSecNonDecreasing
    /\ Len(chunk_scenes) = 3
    /\ spans # << >>
    /\ spans[1].last = 1
    /\ DurFrom(0, 0) < target_sec - tolerance_sec
    /\ InBand(0, 1)
    /\ DurFrom(0, 2) > target_sec + tolerance_sec

\* C30: for max_merge_chain >= 1, after every processed scene the
\* consecutive-merge counter is in 0 .. max_merge_chain - 1 and equals the
\* number of scenes absorbed into the last kept scene since it was appended,
\* and it is 0 right after a scene is appended to the kept list.
C30_ChainCounter ==
    /\ []((MergePhase /\ max_merge_chain >= 1) =>
             /\ 0 <= chain
             /\ chain <= max_merge_chain - 1
             /\ merged # << >> => chain = absorbed[Len(merged)])
    /\ [][(pc = "merge_loop" /\ max_merge_chain >= 1
              /\ Len(merged') > Len(merged)) => chain' = 0]_vars

\* C30 witness: with max_merge_chain = 2 the counter stands at 1 after a
\* second kept scene has absorbed one scene.
C30_Witness ==
    /\ MergePhase
    /\ max_merge_chain = 2
    /\ Len(merged) = 2
    /\ chain = 1
    /\ absorbed[2] = 1
====
